---- MODULE Spec2Model ----
\* convbump: next semantic version and changelog from conventional commits.
\* Text is modelled as sequences of one-character strings, so that the
\* regular expressions and the string methods of the source are computed
\* character by character.  An optional value is <<>> (None) or <<x>>.
EXTENDS Integers, Sequences, FiniteSets, TLC

VARIABLES commits, parents, ctime, message, tree, head, refs, ret

vars == <<commits, parents, ctime, message, tree, head, refs, ret>>

\* ---------------------------------------------------------------- bounds
MaxCommits == 3
MaxTime == 2
MaxRefs == 3

\* ---------------------------------------------------------------- options
None == <<>>
Some(x) == <<x>>
IsSome(o) == o /= <<>>
Get(o) == o[1]

\* ---------------------------------------------------------------- sequences
RECURSIVE Reverse(_)
Reverse(s) == IF s = <<>> THEN <<>> ELSE Append(Reverse(Tail(s)), Head(s))

Range(s) == {s[i] : i \in 1..Len(s)}

\* ---------------------------------------------------------------- text
Digits == <<"0", "1", "2", "3", "4", "5", "6", "7", "8", "9">>

IsDigit(c) == c \in Range(Digits)

DigitVal(c) == (CHOOSE i \in 1..Len(Digits) : Digits[i] = c) - 1

\* int(s) for a string of decimal digits.
RECURSIVE ParseInt(_)
ParseInt(s) ==
    IF s = <<>> THEN 0
    ELSE ParseInt(SubSeq(s, 1, Len(s) - 1)) * 10 + DigitVal(s[Len(s)])

StartsWith(s, pre) == Len(s) >= Len(pre) /\ SubSeq(s, 1, Len(pre)) = pre

DropFirst(s, n) == SubSeq(s, n + 1, Len(s))

\* s.find(pat) + 1: the first position where pat occurs in s, 0 when it does not.
Find(s, pat) ==
    LET hits == {i \in 1..(Len(s) - Len(pat) + 1) : SubSeq(s, i, i + Len(pat) - 1) = pat}
    IN IF hits = {} THEN 0 ELSE CHOOSE i \in hits : \A j \in hits : i <= j

\* pat in s
Contains(s, pat) == Find(s, pat) /= 0

\* s.split(sep)
RECURSIVE Split(_, _)
Split(s, sep) ==
    LET i == Find(s, sep)
    IN IF i = 0 THEN <<s>>
       ELSE <<SubSeq(s, 1, i - 1)>> \o Split(DropFirst(s, i + Len(sep) - 1), sep)

\* sep.join(parts)
RECURSIVE Join(_, _)
Join(parts, sep) ==
    IF parts = <<>> THEN <<>>
    ELSE IF Len(parts) = 1 THEN parts[1]
    ELSE parts[1] \o sep \o Join(Tail(parts), sep)

\* The last position where the character c occurs in s, 0 when it does not.
LastIndexOf(s, c) ==
    LET hits == {i \in 1..Len(s) : s[i] = c}
    IN IF hits = {} THEN 0 ELSE CHOOSE i \in hits : \A j \in hits : j <= i

LowerLetters == <<"a", "b", "c", "d", "e", "f", "g", "h", "i", "j", "k", "l", "m", "n", "o", "p", "q", "r", "s", "t", "u", "v", "w", "x", "y", "z">>

UpperLetters == <<"A", "B", "C", "D", "E", "F", "G", "H", "I", "J", "K", "L", "M", "N", "O", "P", "Q", "R", "S", "T", "U", "V", "W", "X", "Y", "Z">>

\* [a-zA-Z]
IsLetter(c) == c \in Range(LowerLetters) \cup Range(UpperLetters)

IndexIn(s, c) == CHOOSE i \in 1..Len(s) : s[i] = c

LowerChar(c) == IF c \in Range(UpperLetters) THEN LowerLetters[IndexIn(UpperLetters, c)] ELSE c

UpperChar(c) == IF c \in Range(LowerLetters) THEN UpperLetters[IndexIn(LowerLetters, c)] ELSE c

\* s.lower() and s.upper()
RECURSIVE Lower(_)
Lower(s) == IF s = <<>> THEN <<>> ELSE <<LowerChar(Head(s))>> \o Lower(Tail(s))

RECURSIVE Upper(_)
Upper(s) == IF s = <<>> THEN <<>> ELSE <<UpperChar(Head(s))>> \o Upper(Tail(s))

\* The characters \s matches and strip() removes.
Whitespace == {" ", "\t", "\n", "\r"}

RECURSIVE LStrip(_)
LStrip(s) == IF s /= <<>> /\ Head(s) \in Whitespace THEN LStrip(Tail(s)) ELSE s

RECURSIVE RStrip(_)
RStrip(s) ==
    IF s /= <<>> /\ s[Len(s)] \in Whitespace THEN RStrip(SubSeq(s, 1, Len(s) - 1)) ELSE s

\* s.strip()
Strip(s) == LStrip(RStrip(s))

\* ---------------------------------------------------------------- the repository
\* Commits reachable from c through parent links, c included.
RECURSIVE ReachFrom(_, _)
ReachFrom(frontier, seen) ==
    IF frontier = {} THEN seen
    ELSE LET next == UNION {Range(parents[c]) : c \in frontier} \ (seen \cup frontier)
         IN ReachFrom(next, seen \cup frontier)

Reach(c) == ReachFrom({c}, {})

\* ---------------------------------------------------------------- the commit walker
\* The entry the heap pops first: heap entries are (-commit_time, commit) and
\* commits compare by id, so the latest commit time wins and the smaller id
\* breaks a tie.
HeapTop(pq) ==
    CHOOSE c \in pq : \A d \in pq \ {c} :
        \/ ctime[c] > ctime[d]
        \/ ctime[c] = ctime[d] /\ c < d

\* One run of the date-ordered walk queue: pop, mark done, push the parents
\* that are neither queued nor done, emit.
RECURSIVE WalkQueue(_, _, _)
WalkQueue(pq, done, out) ==
    IF pq = {} THEN out
    ELSE LET c == HeapTop(pq)
             done2 == done \cup {c}
             pushed == {p \in Range(parents[c]) : p \notin pq /\ p \notin done2}
         IN WalkQueue((pq \ {c}) \cup pushed, done2, Append(out, c))

\* repo.get_walker(reverse=True): include defaults to [HEAD], the order to
\* commit date, and the entries are handed out reversed.
GetWalker == Reverse(WalkQueue({Get(head)}, {}, <<>>))

\* The loop of list_commits over the walker's entries.
RECURSIVE ListLoop(_, _, _, _, _)
ListLoop(walker, from_sha, to_sha, add, acc) ==
    IF walker = <<>> THEN acc
    ELSE LET hash == Head(walker)
             acc2 == IF add THEN Append(acc, hash) ELSE acc
             add2 == add \/ Some(hash) = from_sha
         IN IF IsSome(to_sha) /\ Some(hash) = to_sha
            THEN acc2
            ELSE ListLoop(Tail(walker), from_sha, to_sha, add2, acc2)

\* Git.list_commits, with from_sha and to_sha the peeled tags (None when the
\* tag is not given).  An empty repository has no HEAD and gives [].
list_commits(from_sha, to_sha) ==
    IF head = None THEN <<>>
    ELSE ListLoop(GetWalker, from_sha, to_sha, from_sha = None, <<>>)

\* ---------------------------------------------------------------- version tags
RefsTags == <<"r", "e", "f", "s", "/", "t", "a", "g", "s">>

RefsTagsSlash == <<"r", "e", "f", "s", "/", "t", "a", "g", "s", "/">>

RefsHeadsSlash == <<"r", "e", "f", "s", "/", "h", "e", "a", "d", "s", "/">>

Version(major, minor, patch) == [major |-> major, minor |-> minor, patch |-> patch]

\* A comparison that looks at the major number only.
VersionLess_MajorOnly(a, b) == a.major < b.major

\* Version.__lt__: versions compare as the tuples (major, minor, patch).
VersionLess(a, b) ==
    \/ a.major < b.major
    \/ a.major = b.major /\ a.minor < b.minor
    \/ a.major = b.major /\ a.minor = b.minor /\ a.patch < b.patch

\* \d+ against a whole string
IsNumber(s) == s /= <<>> /\ \A i \in 1..Len(s) : IsDigit(s[i])

\* The groups of a match whose version part is "v" and the numbers nums.
TagGroups(scope, nums) ==
    IF Len(nums) <= 3 /\ \A i \in 1..Len(nums) : IsNumber(nums[i])
    THEN Some([scope |-> scope,
               major |-> Some(nums[1]),
               minor |-> IF Len(nums) >= 2 THEN Some(nums[2]) ELSE None,
               patch |-> IF Len(nums) >= 3 THEN Some(nums[3]) ELSE None])
    ELSE None

\* The match of a name whose last '/' is at position slash (0: no '/').
TagSplitAt(rest, slash) ==
    IF slash < Len(rest) /\ rest[slash + 1] = "v"
    THEN TagGroups(IF slash = 0 THEN None ELSE Some(SubSeq(rest, 1, slash - 1)),
                   Split(DropFirst(rest, slash + 1), <<".">>))
    ELSE None

TagRest(rest) == TagSplitAt(rest, LastIndexOf(rest, "/"))

\* TAG_REGEX.match(ref).  The version part holds no '/', so the greedy scope
\* is everything between refs/tags/ and the last '/', and the group does not
\* take part when there is no '/'.
TagRegexMatch(ref) ==
    IF StartsWith(ref, RefsTagsSlash) THEN TagRest(DropFirst(ref, Len(RefsTagsSlash)))
    ELSE None

\* Version(major, minor or 0, patch or 0): the matched digits become numbers.
GroupOrZero(g) == IF IsSome(g) THEN ParseInt(Get(g)) ELSE 0

\* x put after the entries of the sorted list that are not greater than it.
InsertSorted(init, x) ==
    LET k == Cardinality({i \in 1..Len(init) : ~VersionLess(x[2], init[i][2])})
    IN SubSeq(init, 1, k) \o <<x>> \o SubSeq(init, k + 1, Len(init))

\* sorted(list, key=itemgetter(1)): a stable sort, ascending by version.
RECURSIVE SortedByVersion(_)
SortedByVersion(list) ==
    IF list = <<>> THEN <<>>
    ELSE InsertSorted(SortedByVersion(SubSeq(list, 1, Len(list) - 1)), list[Len(list)])

\* An entry for every matching tag, whatever its scope.
TagEntry_AnyScope(tag, match, scope) ==
    IF IsSome(match)
    THEN <<<<tag, Version(GroupOrZero(Get(match).major),
                          GroupOrZero(Get(match).minor),
                          GroupOrZero(Get(match).patch))>>>>
    ELSE <<>>

\* The entry a tag adds to tag_version_list: none when the ref does not match
\* or its scope is not the requested one.
TagEntry(tag, match, scope) ==
    IF IsSome(match) /\ scope = Get(match).scope
    THEN <<<<tag, Version(GroupOrZero(Get(match).major),
                          GroupOrZero(Get(match).minor),
                          GroupOrZero(Get(match).patch))>>>>
    ELSE <<>>

\* The loop of retrieve_last_version over the tag refs, in their order.
RECURSIVE TagVersionList(_, _)
TagVersionList(tag_refs, scope) ==
    IF tag_refs = <<>> THEN <<>>
    ELSE TagEntry(Head(tag_refs), TagRegexMatch(Head(tag_refs)), scope)
             \o TagVersionList(Tail(tag_refs), scope)

IsTagRef(ref) == StartsWith(ref, RefsTags)

RefNames == [i \in 1..Len(refs) |-> refs[i][1]]

\* The last entry of the sorted list, or (None, None).
LastOf(sorted_tags) ==
    IF sorted_tags /= <<>>
    THEN [tag |-> Some(sorted_tags[Len(sorted_tags)][1]),
          version |-> Some(sorted_tags[Len(sorted_tags)][2])]
    ELSE [tag |-> None, version |-> None]

\* Git.retrieve_last_version(scope): (tag, version) or (None, None).
retrieve_last_version(scope) ==
    LastOf(SortedByVersion(TagVersionList(SelectSeq(RefNames, IsTagRef), scope)))

\* ---------------------------------------------------------------- changed paths
\* A tree is a set of <<path, blob>> entries.  tree_changes(old, new) reports
\* the paths whose entry was added, removed or modified.
TreeChanges(old_tree, new_tree) ==
    {e[1] : e \in (old_tree \ new_tree) \cup (new_tree \ old_tree)}

\* Git.get_commit_paths(commit): the changes against every parent.
get_commit_paths(sha) ==
    UNION {TreeChanges(tree[parent], tree[sha]) : parent \in Range(parents[sha])}

IsPathPart(part) == part /= <<>> /\ part /= <<".">>

\* Path(text).parts: the segments between '/', without empty and '.' segments;
\* an absolute path starts with the part '/'.
PathParts(text) ==
    (IF text /= <<>> /\ Head(text) = "/" THEN <<<<"/">>>> ELSE <<>>)
        \o SelectSeq(Split(text, <<"/">>), IsPathPart)

\* A comparison of the texts instead of the parts.
IsRelativeTo_StringPrefix(path, dir) == StartsWith(path, dir)

\* path.relative_to(dir) does not raise
IsRelativeTo(path, dir) ==
    LET p == PathParts(path)
        d == PathParts(dir)
    IN Len(d) <= Len(p) /\ SubSeq(p, 1, Len(d)) = d

\* Commit.affects_dir(dir)
affects_dir(commit, dir) == \E path \in commit.paths : IsRelativeTo(path, dir)

\* ---------------------------------------------------------------- commit messages
NL == <<"\n">>

ParagraphBreak == <<"\n", "\n">>

\* The subject and the body, given the paragraphs of the stripped message.
MessageParts(msg, paragraphs) ==
    IF Contains(paragraphs[1], NL)
    THEN [subject |-> <<>>, body |-> msg]
    ELSE [subject |-> paragraphs[1], body |-> Join(Tail(paragraphs), ParagraphBreak)]

\* parse_message(message): (subject, body)
parse_message(msg) == MessageParts(msg, Split(Strip(msg), ParagraphBreak))

\* s or None
OrNone(s) == IF s = <<>> THEN None ELSE Some(s)

\* commit.id as hexadecimal text
Hex(sha) == <<Digits[sha + 1], "a", "b", "c", "d", "e", "f", "0", "1">>

CommitOf(sha, m) ==
    [hash |-> Hex(sha), subject |-> m.subject, body |-> OrNone(m.body),
     paths |-> get_commit_paths(sha)]

\* Commit(hash, subject, body or None, paths) as list_commits builds it
Commit(sha) == CommitOf(sha, parse_message(message[sha]))

\* ---------------------------------------------------------------- conventional commits
BREAKING_CHANGE_IN_BODY == <<"B", "R", "E", "A", "K", "I", "N", "G", " ", "C", "H", "A", "N", "G", "E", ":">>

MAJOR == 3
MINOR == 2
PATCH == 1
NONE == 0

FEAT == <<"f", "e", "a", "t">>

FIX == <<"f", "i", "x">>

BreakingMarker == <<"*", "*", "B", "R", "E", "A", "K", "I", "N", "G", " ", "C", "H", "A", "N", "G", "E", "*", "*", " ">>

TitleFeatures == <<"F", "e", "a", "t", "u", "r", "e", "s">>

TitleFixes == <<"F", "i", "x", "e", "s">>

TitleOther == <<"O", "t", "h", "e", "r">>

Other == <<"o", "t", "h", "e", "r">>

\* The names of the members of CommitType; the value of each is its name in
\* lower case.
CommitTypeNames ==
    {<<"F", "E", "A", "T">>,
     <<"F", "I", "X">>,
     <<"C", "H", "O", "R", "E">>,
     <<"D", "O", "C", "S">>,
     <<"T", "E", "S", "T">>,
     <<"R", "E", "F", "A", "C", "T", "O", "R">>,
     <<"S", "T", "Y", "L", "E">>,
     <<"B", "U", "I", "L", "D">>,
     <<"C", "I">>,
     <<"O", "T", "H", "E", "R">>}

\* A lookup of the token as it is written, without upper().
ToCommitType_AsWritten(raw) == IF raw \in CommitTypeNames THEN Lower(raw) ELSE Other

\* CommitType[raw.upper()], Other on KeyError; a member is held as its value.
ToCommitType(raw) == IF Upper(raw) \in CommitTypeNames THEN Lower(Upper(raw)) ELSE Other

\* A mapping that looks at the type before the breaking flag.
get_commit_version_impact_TypeFirst(commit_type, is_breaking) ==
    IF Lower(commit_type) = FEAT THEN MINOR
    ELSE IF is_breaking THEN MAJOR
    ELSE PATCH

get_commit_version_impact(commit_type, is_breaking) ==
    IF is_breaking THEN MAJOR
    ELSE IF Lower(commit_type) = FEAT THEN MINOR
    ELSE PATCH

\* The length of the longest prefix of s made of letters: the type group
\* [a-zA-Z]*? must stop at '(' , '!' or ':', none of them a letter.
LetterRun(s) ==
    CHOOSE k \in 0..Len(s) :
        /\ \A i \in 1..k : IsLetter(s[i])
        /\ k < Len(s) => ~IsLetter(s[k + 1])

\* (!)?: at position q: the position after the ':', 0 when there is no match.
MarkAndColon(s, q) ==
    IF q + 1 <= Len(s) /\ s[q] = "!" /\ s[q + 1] = ":" THEN q + 2
    ELSE IF q <= Len(s) /\ s[q] = ":" THEN q + 1
    ELSE 0

\* A scope that ends at the first ')' that (!)?: follows.
ScopeClose_First(s, k) ==
    LET closes == IF k < Len(s) /\ s[k + 1] = "("
                  THEN {j \in (k + 2)..Len(s) : s[j] = ")" /\ MarkAndColon(s, j + 1) /= 0}
                  ELSE {}
    IN IF closes = {} THEN 0 ELSE CHOOSE j \in closes : \A i \in closes : j <= i

\* The last ')' after the '(' at position k + 1 that (!)?: follows; 0 when s
\* has no '(' there or no such ')'.  The scope group is greedy.
ScopeClose(s, k) ==
    LET closes == IF k < Len(s) /\ s[k + 1] = "("
                  THEN {j \in (k + 2)..Len(s) : s[j] = ")" /\ MarkAndColon(s, j + 1) /= 0}
                  ELSE {}
    IN IF closes = {} THEN 0 ELSE CHOOSE j \in closes : \A i \in closes : i <= j

\* The groups, given the end k of the type, the ')' of the scope (or 0), the
\* position q of (!)?: and the position r after the ':'.  \s? takes one
\* whitespace character when there is one.
SubjectGroups(s, k, close, q, r) ==
    IF r = 0 THEN None
    ELSE Some([type |-> SubSeq(s, 1, k),
               scope |-> IF close = 0 THEN None ELSE Some(SubSeq(s, k + 2, close - 1)),
               breaking |-> s[q] = "!",
               subject |-> SubSeq(s, IF r <= Len(s) /\ s[r] \in Whitespace THEN r + 1 ELSE r,
                                  Len(s))])

SubjectAt(s, k, close, q) == SubjectGroups(s, k, close, q, MarkAndColon(s, q))

SubjectAfterType(s, k, close) ==
    SubjectAt(s, k, close, IF close = 0 THEN k + 1 ELSE close + 1)

SubjectWithType(s, k) == SubjectAfterType(s, k, ScopeClose(s, k))

\* SUBJECT_REGEX.match(s) for a line s without a newline: None, or the groups.
SubjectRegexMatch(s) == SubjectWithType(s, LetterRun(s))

\* A result that also rejects a match with an empty type.
SubjectResult_TypeRequired(match) ==
    IF IsSome(match) /\ Get(match).subject /= <<>> /\ Get(match).type /= <<>>
    THEN Some([type |-> Get(match).type, scope |-> Get(match).scope,
               is_breaking |-> Get(match).breaking, subject |-> Get(match).subject])
    ELSE None

\* The result of parse_subject for a match: None stands for the ValueError.
SubjectResult(match) ==
    IF IsSome(match) /\ Get(match).subject /= <<>>
    THEN Some([type |-> Get(match).type, scope |-> Get(match).scope,
               is_breaking |-> Get(match).breaking, subject |-> Get(match).subject])
    ELSE None

parse_subject(subject) == SubjectResult(SubjectRegexMatch(subject))

Bullets == {"*", "-", "U+2022"}

\* re.sub(r"^[\*\-\u2022]\s*", "", line)
RemoveBullet(line) ==
    IF line /= <<>> /\ Head(line) \in Bullets THEN LStrip(Tail(line)) ELSE line

\* What a parsed line adds to found_commits.
FoundInfo(commit_info) ==
    IF commit_info = None THEN <<>>
    ELSE <<[impact |-> get_commit_version_impact(Get(commit_info).type,
                                                 Get(commit_info).is_breaking),
            info |-> Get(commit_info)]>>

\* What a stripped line adds to found_commits.
FoundLine(line) ==
    IF line = <<>> THEN <<>> ELSE FoundInfo(parse_subject(RemoveBullet(line)))

\* The loop of find_conventional_commit_in_body over the lines of the body.
RECURSIVE FoundCommits(_)
FoundCommits(lines) ==
    IF lines = <<>> THEN <<>>
    ELSE FoundLine(Strip(Head(lines))) \o FoundCommits(Tail(lines))

HasImpact3(f) == f.impact = MAJOR
HasImpact2(f) == f.impact = MINOR
HasImpact1(f) == f.impact = PATCH
HasImpact0(f) == f.impact = NONE

\* found_commits.sort(key=lambda x: x[0], reverse=True): a stable sort,
\* descending by impact.
SortByImpact(found) ==
    SelectSeq(found, HasImpact3) \o SelectSeq(found, HasImpact2)
        \o SelectSeq(found, HasImpact1) \o SelectSeq(found, HasImpact0)

\* The first commit found, whatever its priority.
BestFound_First(found_commits) ==
    IF found_commits = <<>> THEN None ELSE Some(found_commits[1].info)

\* The commit found with the highest priority, None when none was found.
BestFound(found_commits) ==
    IF found_commits = <<>> THEN None ELSE Some(SortByImpact(found_commits)[1].info)

find_conventional_commit_in_body(body) ==
    IF body = <<>> THEN None ELSE BestFound(FoundCommits(Split(body, NL)))

\* The body's commit, else the `other` fallback with the original subject.
BodyOrFallback(git_commit, body_result) ==
    IF IsSome(body_result) THEN [info |-> Get(body_result), is_conventional |-> TRUE]
    ELSE [info |-> [type |-> Other, scope |-> None, is_breaking |-> FALSE,
                    subject |-> git_commit.subject],
          is_conventional |-> FALSE]

\* A first stage that searches the body before it looks at the subject.
SubjectOrBody_BodyFirst(git_commit, parsed) ==
    IF IsSome(git_commit.body) /\ Get(git_commit.body) /= <<>>
           /\ IsSome(find_conventional_commit_in_body(Get(git_commit.body)))
    THEN [info |-> Get(find_conventional_commit_in_body(Get(git_commit.body))),
          is_conventional |-> TRUE]
    ELSE IF IsSome(parsed) THEN [info |-> Get(parsed), is_conventional |-> TRUE]
    ELSE BodyOrFallback(git_commit, None)

\* The subject's commit, else the body is searched.
SubjectOrBody(git_commit, parsed) ==
    IF IsSome(parsed) THEN [info |-> Get(parsed), is_conventional |-> TRUE]
    ELSE BodyOrFallback(git_commit,
                        IF IsSome(git_commit.body) /\ Get(git_commit.body) /= <<>>
                        THEN find_conventional_commit_in_body(Get(git_commit.body))
                        ELSE None)

\* The first stage of from_git_commit: the subject, else the body, else the
\* `other` fallback.
ParsedOrFallback(git_commit) == SubjectOrBody(git_commit, parse_subject(git_commit.subject))

\* A check that finds the marker at the start of the body only.
BreakingInBody_AtStart(git_commit) ==
    IsSome(git_commit.body) /\ StartsWith(Get(git_commit.body), BREAKING_CHANGE_IN_BODY)

\* BREAKING_CHANGE_IN_BODY in git_commit.body, for a body that is not None
BreakingInBody(git_commit) ==
    IsSome(git_commit.body) /\ Contains(Get(git_commit.body), BREAKING_CHANGE_IN_BODY)

\* The record from_git_commit returns, p being what its first stage found.
ConventionalCommit(git_commit, p) ==
    [commit_type |-> ToCommitType(p.info.type),
     scope |-> p.info.scope,
     is_breaking |-> p.info.is_breaking \/ BreakingInBody(git_commit),
     subject |-> p.info.subject,
     body |-> IF IsSome(git_commit.body) THEN OrNone(Get(git_commit.body)) ELSE None,
     hash |-> SubSeq(git_commit.hash, 1, 7),
     raw_subject |-> git_commit.subject,
     is_conventional |-> p.is_conventional]

\* ConventionalCommit.from_git_commit(git_commit)
from_git_commit(git_commit) == ConventionalCommit(git_commit, ParsedOrFallback(git_commit))

\* "U+0060" stands for the one backtick character.
Backtick == "U+0060"

\* The text of format(), given the scope part and the type part.
Formatted(c, commit_type) ==
    (IF c.is_breaking THEN BreakingMarker ELSE <<>>)
        \o commit_type \o c.subject \o <<" ", "(">> \o c.hash \o <<")">>

\* A type part that is shown for every type.
FormatWithScope_AlwaysType(c, scope) ==
    Formatted(c, c.commit_type \o scope \o <<":", " ">>)

FormatWithScope(c, scope) ==
    Formatted(c, IF c.commit_type \notin {FEAT, FIX}
                 THEN c.commit_type \o scope \o <<":", " ">>
                 ELSE IF scope /= <<>> THEN scope \o <<" ">> ELSE <<>>)

\* ConventionalCommit.format()
format(c) ==
    FormatWithScope(c, IF IsSome(c.scope) /\ Get(c.scope) /= <<>>
                       THEN <<"(", Backtick>> \o Get(c.scope) \o <<Backtick, ")">>
                       ELSE <<>>)

IsFeat(c) == c.commit_type = FEAT
IsFix(c) == c.commit_type = FIX
\* A group that holds the records of type other only.
IsOtherGroup_OtherOnly(c) == c.commit_type = Other

IsOtherGroup(c) == c.commit_type \notin {FEAT, FIX}

RECURSIVE FormatLines(_)
FormatLines(group) ==
    IF group = <<>> THEN <<>>
    ELSE <<<<"*", " ">> \o format(Head(group))>> \o FormatLines(Tail(group))

\* One section of the changelog: nothing for an empty group.
Section(title, group) ==
    IF group = <<>> THEN <<>>
    ELSE <<NL \o <<"#", "#", "#", " ">> \o title>> \o FormatLines(group)

\* format_changelog(commits)
format_changelog(cs) ==
    Strip(Join(Section(TitleFeatures, SelectSeq(cs, IsFeat))
                   \o Section(TitleFixes, SelectSeq(cs, IsFix))
                   \o Section(TitleOther, SelectSeq(cs, IsOtherGroup)),
               NL))

\* ---------------------------------------------------------------- the next version
DEFAULT_FIRST_VERSION == Version(0, 1, 0)

bump_major(v) == Version(v.major + 1, 0, 0)
\* A minor bump that leaves the patch number as it is.
bump_minor_KeepPatch(v) == Version(v.major, v.minor + 1, v.patch)

bump_minor(v) == Version(v.major, v.minor + 1, 0)
bump_patch(v) == Version(v.major, v.minor, v.patch + 1)

\* The impact seen last instead of the highest.
Max_Latest(a, b) == a

Max(a, b) == IF a > b THEN a ELSE b

\* The loop of get_next_version: the highest impact among the commits.
RECURSIVE MaxImpact(_, _)
MaxImpact(cs, max_impact) ==
    IF cs = <<>> THEN max_impact
    ELSE MaxImpact(Tail(cs),
                   Max(get_commit_version_impact(Head(cs).commit_type, Head(cs).is_breaking),
                       max_impact))

\* The bump get_next_version applies for the highest impact.
Bump(current_version, max_impact) ==
    IF max_impact = MAJOR THEN bump_major(current_version)
    ELSE IF max_impact = MINOR THEN bump_minor(current_version)
    ELSE IF max_impact = PATCH THEN bump_patch(current_version)
    ELSE current_version

get_next_version(current_version, cs) ==
    IF cs = <<>> THEN current_version ELSE Bump(current_version, MaxImpact(cs, NONE))

\* ---------------------------------------------------------------- the run
\* A check that lets the empty pattern match.
ignore_commit_EmptyMatches(patterns, c) ==
    LET msg == c.raw_subject \o ParagraphBreak \o (IF IsSome(c.body) THEN Get(c.body) ELSE <<>>)
    IN \E i \in 1..Len(patterns) : Contains(msg, patterns[i])

\* ignore_commit(patterns, commit)
ignore_commit(patterns, c) ==
    LET msg == c.raw_subject \o ParagraphBreak \o (IF IsSome(c.body) THEN Get(c.body) ELSE <<>>)
    IN \E i \in 1..Len(patterns) : patterns[i] /= <<>> /\ Contains(msg, patterns[i])

\* repo.get_peeled(tag): the commit a ref points at
get_peeled(ref) == refs[CHOOSE i \in 1..Len(refs) : refs[i][1] = ref][2]

\* `not directory`: None and the empty string both switch the filter off.
NoDirectory(directory) == directory = None \/ Get(directory) = <<>>

\* A filter that also drops the commits that are not conventional.
KeepUnlessIgnored_ConventionalOnly(conventional_commit, ignored_patterns) ==
    IF conventional_commit.is_conventional
           /\ ~ignore_commit(ignored_patterns, conventional_commit)
    THEN <<conventional_commit>>
    ELSE <<>>

\* What a parsed commit adds to conventional_commits.
KeepUnlessIgnored(conventional_commit, ignored_patterns) ==
    IF ~ignore_commit(ignored_patterns, conventional_commit)
    THEN <<conventional_commit>>
    ELSE <<>>

\* A loop body without the directory filter.
KeepCommit_AnyDirectory(commit, strict, directory, ignored_patterns) ==
    KeepUnlessIgnored(from_git_commit(commit), ignored_patterns)

\* What a listed commit adds to conventional_commits.  from_git_commit raises
\* nothing and affects_dir catches its own ValueError, so the except branch,
\* the only place where `strict` is read, is never entered.
KeepCommit(commit, strict, directory, ignored_patterns) ==
    IF NoDirectory(directory) \/ affects_dir(commit, Get(directory))
    THEN KeepUnlessIgnored(from_git_commit(commit), ignored_patterns)
    ELSE <<>>

\* The loop of _run over the listed commits.
RECURSIVE ConventionalCommits(_, _, _, _)
ConventionalCommits(listed, strict, directory, ignored_patterns) ==
    IF listed = <<>> THEN <<>>
    ELSE KeepCommit(Commit(Head(listed)), strict, directory, ignored_patterns)
             \o ConventionalCommits(Tail(listed), strict, directory, ignored_patterns)

\* An end of the run that returns the current version when no commit is left.
RunResult_Unchanged(current_version, conventional_commits) ==
    [raised |-> FALSE,
     version |-> Some(get_next_version(current_version, conventional_commits)),
     changelog |-> Some(format_changelog(conventional_commits)),
     conventional_commits |-> conventional_commits]

\* The end of _run: the ValueError when no commit is left, else the next
\* version and the changelog.
RunResult(current_version, conventional_commits) ==
    IF Len(conventional_commits) = 0
    THEN [raised |-> TRUE, version |-> None, changelog |-> None,
          conventional_commits |-> conventional_commits]
    ELSE [raised |-> FALSE,
          version |-> Some(get_next_version(current_version, conventional_commits)),
          changelog |-> Some(format_changelog(conventional_commits)),
          conventional_commits |-> conventional_commits]

\* A run that, without a tag, starts from the first version and the whole history.
RunFrom_NoDefault(last, strict, directory, ignored_patterns) ==
    RunResult(IF last.version = None THEN DEFAULT_FIRST_VERSION ELSE Get(last.version),
              ConventionalCommits(list_commits(IF last.tag = None THEN None
                                               ELSE Some(get_peeled(Get(last.tag))), None),
                                  strict, directory, ignored_patterns))

\* _run after retrieve_last_version returned `last`.
RunFrom(last, strict, directory, ignored_patterns) ==
    IF last.version = None
    THEN [raised |-> FALSE, version |-> Some(DEFAULT_FIRST_VERSION),
          changelog |-> Some(<<>>), conventional_commits |-> <<>>]
    ELSE RunResult(Get(last.version),
                   ConventionalCommits(list_commits(Some(get_peeled(Get(last.tag))), None),
                                       strict, directory, ignored_patterns))

\* _run(git, strict, directory, ignored_patterns): the version and the
\* changelog, or the ValueError.
Run(strict, directory, ignored_patterns) ==
    RunFrom(retrieve_last_version(directory), strict, directory, ignored_patterns)

\* ---------------------------------------------------------------- git actions
Init ==
    /\ commits = {}
    /\ parents = <<>>
    /\ ctime = <<>>
    /\ message = <<>>
    /\ tree = <<>>
    /\ head = None
    /\ refs = <<>>
    /\ ret = None

AddCommit(sha, ps, t, msg, tr) ==
    /\ commits' = commits \cup {sha}
    /\ parents' = [c \in commits \cup {sha} |-> IF c = sha THEN ps ELSE parents[c]]
    /\ ctime' = [c \in commits \cup {sha} |-> IF c = sha THEN t ELSE ctime[c]]
    /\ message' = [c \in commits \cup {sha} |-> IF c = sha THEN msg ELSE message[c]]
    /\ tree' = [c \in commits \cup {sha} |-> IF c = sha THEN tr ELSE tree[c]]
    /\ head' = Some(sha)

\* The tree of HEAD, the empty tree before the first commit.
HeadTree == IF head = None THEN {} ELSE tree[Get(head)]

\* git commit --allow-empty -m msg: the new commit's parent is HEAD and its
\* tree is the tree of HEAD.
GitCommit(sha, t, msg) ==
    /\ ret = None
    /\ Cardinality(commits) < MaxCommits
    /\ sha \notin commits
    /\ AddCommit(sha, IF head = None THEN <<>> ELSE <<Get(head)>>, t, msg, HeadTree)
    /\ UNCHANGED <<refs, ret>>

\* git merge --no-ff other: a merge commit unless other is already merged.
GitMerge(sha, other, t, msg) ==
    /\ ret = None
    /\ Cardinality(commits) < MaxCommits
    /\ sha \notin commits
    /\ head /= None
    /\ other \in commits \ Reach(Get(head))
    /\ AddCommit(sha, <<Get(head), other>>, t, msg, tree[Get(head)] \cup tree[other])
    /\ UNCHANGED <<refs, ret>>

\* git checkout c
GitCheckout(c) ==
    /\ ret = None
    /\ c \in commits
    /\ head /= Some(c)
    /\ head' = Some(c)
    /\ UNCHANGED <<commits, parents, ctime, message, tree, refs, ret>>

\* git.list_commits(from_tag, to_tag)
ListCommits(from_sha, to_sha) ==
    /\ ret = None
    /\ ret' = [op |-> "list_commits", from |-> from_sha, to |-> to_sha,
               value |-> list_commits(from_sha, to_sha)]
    /\ UNCHANGED <<commits, parents, ctime, message, tree, head, refs>>

Shas == 1..MaxCommits
Times == 1..MaxTime
MaybeCommit == {None} \cup {Some(c) : c \in commits}

NextWalk ==
    \/ \E sha \in Shas, t \in Times : GitCommit(sha, t, <<"x">>)
    \/ \E sha \in Shas, other \in commits, t \in Times : GitMerge(sha, other, t, <<"m">>)
    \/ \E c \in commits : GitCheckout(c)
    \/ \E f \in MaybeCommit, t \in MaybeCommit : ListCommits(f, t)

SpecWalk == Init /\ [][NextWalk]_vars

InsertAt(s, pos, x) == SubSeq(s, 1, pos - 1) \o <<x>> \o SubSeq(s, pos, Len(s))

\* A new ref pointing at HEAD; the repository enumerates its refs in no
\* particular order, so the ref may take any place in the enumeration.
AddRef(ref, pos) ==
    /\ ret = None
    /\ head /= None
    /\ Len(refs) < MaxRefs
    /\ \A i \in 1..Len(refs) : refs[i][1] /= ref
    /\ pos \in 1..(Len(refs) + 1)
    /\ refs' = InsertAt(refs, pos, <<ref, Get(head)>>)
    /\ UNCHANGED <<commits, parents, ctime, message, tree, head, ret>>

\* git tag -a -m message name
GitTag(name, pos) == AddRef(RefsTagsSlash \o name, pos)

\* git checkout -b name
GitBranch(name, pos) == AddRef(RefsHeadsSlash \o name, pos)

\* git.retrieve_last_version(scope)
RetrieveLastVersion(scope) ==
    /\ ret = None
    /\ ret' = [op |-> "retrieve_last_version", scope |-> scope,
               value |-> retrieve_last_version(scope)]
    /\ UNCHANGED <<commits, parents, ctime, message, tree, head, refs>>

TagNames ==
    {<<"v", "1">>,
     <<"v", "1", ".", "9", ".", "0">>,
     <<"v", "1", ".", "1", "0", ".", "0">>,
     <<"v", "2", ".", "0", ".", "0">>,
     <<"v", "1", ".", "0", ".", "0">>,
     <<"v", "0", "1">>,
     <<"v", "1", ".">>,
     <<"v", "1", ".", "2", ".", "3", ".", "4">>,
     <<"1", ".", "0", ".", "0">>,
     <<"n", "o", "t", "-", "a", "-", "v", "e", "r", "s", "i", "o", "n">>,
     <<"c", "o", "r", "e", "/", "v", "1">>,
     <<"c", "o", "r", "e", "/", "v", "3", ".", "0", ".", "0">>,
     <<"c", "o", "r", "e", "/", "c", "o", "n", "s", "u", "m", "e", "r", "/", "v", "1", ".", "1", ".", "0">>,
     <<"a", "p", "i", "/", "v", "4">>}

BranchNames == {<<"v", "9">>}

Scopes == {None, Some(<<"c", "o", "r", "e">>), Some(<<"c", "o", "r", "e", "/", "c", "o", "n", "s", "u", "m", "e", "r">>), Some(<<"a", "p", "i">>)}

NextTags ==
    \/ \E sha \in {1} : GitCommit(sha, 1, <<"x">>)
    \/ \E name \in TagNames, pos \in 1..MaxRefs : GitTag(name, pos)
    \/ \E name \in BranchNames, pos \in 1..MaxRefs : GitBranch(name, pos)
    \/ \E scope \in Scopes : RetrieveLastVersion(scope)

SpecTags == Init /\ [][NextTags]_vars

\* ConventionalCommit.from_git_commit(commit) for a listed commit
ParseCommit(commit) ==
    /\ ret' = [op |-> "from_git_commit", commit |-> commit, value |-> from_git_commit(commit)]
    /\ UNCHANGED <<commits, parents, ctime, message, tree, head, refs>>

FromGitCommit(sha) ==
    /\ ret = None
    /\ sha \in commits
    /\ ParseCommit(Commit(sha))

\* _run(git, strict, directory, ignored_patterns)
RunOp(strict, directory, ignored_patterns) ==
    /\ ret = None
    /\ ret' = [op |-> "_run", strict |-> strict, directory |-> directory,
               ignored_patterns |-> ignored_patterns,
               value |-> Run(strict, directory, ignored_patterns)]
    /\ UNCHANGED <<commits, parents, ctime, message, tree, head, refs>>

SubjectPool ==
    {<<"f", "e", "a", "t", ":", " ", "a">>,
     <<"F", "e", "a", "t", "(", "s", ")", "!", ":", " ", "b">>,
     <<"f", "i", "x", ":", " ", "c">>,
     <<"c", "h", "o", "r", "e", "(", "d", "e", "p", "s", ")", ":", " ", "d">>,
     <<"f", "a", "k", "e", ":", " ", "e">>,
     <<"w", "i", "p", " ", "#", "1">>,
     <<"f", "e", "a", "t", ":">>,
     <<"f", "e", "a", "t", ":", " ">>,
     <<":", " ", "x">>,
     <<"(", "s", ")", ":", " ", "y">>,
     <<"T", "\n", "*", " ", "f", "i", "x", ":", " ", "a", "\n", "*", " ", "f", "e", "a", "t", ":", " ", "b">>,
     <<"f", "i", "x", "(", "a", ")", ":", " ", "b", " ", "(", "c", ")", ":", " ", "d">>,
     <<"G", "\n", "*", " ", "U">>}

BodyPool ==
    {<<>>,
     <<"t", "e", "x", "t">>,
     <<"B", "R", "E", "A", "K", "I", "N", "G", " ", "C", "H", "A", "N", "G", "E", ":", " ", "x">>,
     <<"*", " ", "f", "i", "x", ":", " ", "a", "\n", "*", " ", "f", "e", "a", "t", ":", " ", "b", "\n", "*", " ", "c", "h", "o", "r", "e", ":", " ", "c">>,
     <<"f", "i", "x", ":", " ", "a", "\n", "\n", "p", "e", "r", "f", ":", " ", "b">>,
     <<"-", " ", "f", "e", "a", "t", "!", ":", " ", "z", "\n", "f", "e", "a", "t", ":", " ", "y">>,
     <<"*", " ", "c", "h", "o", "r", "e", ":", " ", "a", "\n", "\n", " ", " ", "*", " ", "F", "i", "x", "(", "s", ")", ":", " ", "b">>,
     <<"d", "o", "c", "s", ":", " ", "s", "e", "e", " ", "B", "R", "E", "A", "K", "I", "N", "G", " ", "C", "H", "A", "N", "G", "E", ":", " ", "y">>,
     <<"*", "f", "e", "a", "t", ":", "\n", ":", " ", "z">>}

\* git commit -m subject -m body: the paragraphs are joined by a blank line.
ParseMessages ==
    {IF b = <<>> THEN s ELSE s \o ParagraphBreak \o b : s \in SubjectPool, b \in BodyPool}

FillerMessages ==
    {<<"I", "n", "i", "t", "i", "a", "l", " ", "c", "o", "m", "m", "i", "t">>,
     <<"f", "e", "a", "t", ":", " ", "a", "d", "d", " ", "X">>}

ParseTag == <<"v", "1", ".", "0", ".", "0">>

\* get_commit_version_impact(commit_type, is_breaking), called directly
GetCommitVersionImpact(commit_type, is_breaking) ==
    /\ ret = None
    /\ ret' = [op |-> "get_commit_version_impact", commit_type |-> commit_type,
               is_breaking |-> is_breaking,
               value |-> get_commit_version_impact(commit_type, is_breaking)]
    /\ UNCHANGED <<commits, parents, ctime, message, tree, head, refs>>

ImpactTypes ==
    {<<"f", "e", "a", "t">>, <<"F", "e", "a", "t">>, <<"F", "E", "A", "T">>,
     <<"f", "i", "x">>, <<"c", "h", "o", "r", "e">>, <<"p", "e", "r", "f">>,
     <<"d", "o", "c", "s">>, <<"u", "n", "k", "n", "o", "w", "n">>,
     <<"o", "t", "h", "e", "r">>, <<>>}

\* commit.format(), called directly
FormatOf(conventional_commit) ==
    /\ ret = None
    /\ ret' = [op |-> "format", commit |-> conventional_commit,
               value |-> format(conventional_commit)]
    /\ UNCHANGED <<commits, parents, ctime, message, tree, head, refs>>

\* format() of the record of a commit
Format(sha) ==
    /\ sha \in commits
    /\ FormatOf(from_git_commit(Commit(sha)))

ParsePatterns ==
    {<<>>,
     <<<<"c", "h", "o", "r", "e">>>>,
     <<<<"f", "e", "a", "t">>>>,
     <<<<"f", "e", "a", "t">>, <<"f", "i", "x">>, <<"c", "h", "o", "r", "e">>>>}

\* The repositories of the parser tests: a first commit, a commit with the
\* message under test, further commits, and the tag v1.0.0 on one of them.
NextParse ==
    \/ \E msg \in (IF Cardinality(commits) = 1 THEN ParseMessages ELSE FillerMessages) :
           GitCommit(Cardinality(commits) + 1, 1, msg)
    \/ GitTag(ParseTag, Len(refs) + 1)
    \/ \E sha \in commits : FromGitCommit(sha)
    \/ \E strict \in BOOLEAN, pats \in ParsePatterns : RunOp(strict, None, pats)
    \/ \E commit_type \in ImpactTypes, is_breaking \in BOOLEAN :
           GetCommitVersionImpact(commit_type, is_breaking)
    \/ \E sha \in commits : Format(sha)

SpecParse == Init /\ [][NextParse]_vars

RunMessages ==
    {<<"I", "n", "i", "t", "i", "a", "l", " ", "c", "o", "m", "m", "i", "t">>,
     <<"f", "e", "a", "t", ":", " ", "a", "d", "d", " ", "X">>,
     <<"c", "h", "o", "r", "e", ":", " ", "d", "e", "p", "s">>,
     <<"N", "o", "t", "e", "\n", "\n", "B", "R", "E", "A", "K", "I", "N", "G", " ", "C", "H", "A", "N", "G", "E", ":", " ", "b">>}

RunTags ==
    {<<"v", "1", ".", "0", ".", "0">>,
     <<"n", "o", "t", "-", "a", "-", "v", "e", "r", "s", "i", "o", "n">>}

RunDirectories == {None, Some(<<"c", "o", "r", "e">>)}

RunPatterns == {<<>>, <<<<"c", "h", "o", "r", "e">>>>}

\* get_next_version(current_version, conventional_commits), called directly
GetNextVersionOf(current_version, conventional_commits) ==
    /\ ret = None
    /\ ret' = [op |-> "get_next_version", current_version |-> current_version,
               conventional_commits |-> conventional_commits,
               value |-> get_next_version(current_version, conventional_commits)]
    /\ UNCHANGED <<commits, parents, ctime, message, tree, head, refs>>

\* get_next_version for the records of all the commits of the repository
GetNextVersion(current_version) ==
    GetNextVersionOf(current_version,
                     ConventionalCommits(list_commits(None, None), FALSE, None, <<>>))

\* ignore_commit(patterns, commit), called directly
IgnoreCommitOf(patterns, commit) ==
    /\ ret = None
    /\ ret' = [op |-> "ignore_commit", patterns |-> patterns, commit |-> commit,
               value |-> ignore_commit(patterns, commit)]
    /\ UNCHANGED <<commits, parents, ctime, message, tree, head, refs>>

\* ignore_commit for the record of the commit at HEAD
IgnoreCommit(patterns) ==
    /\ head /= None
    /\ IgnoreCommitOf(patterns, from_git_commit(Commit(Get(head))))

IgnorePatterns ==
    {<<<<"c", "h", "o", "r", "e">>>>,
     <<<<>>, <<"B", "R", "E", "A", "K", "I", "N", "G">>>>,
     <<<<"e", "\n", "\n", "B">>>>}

\* format_changelog(commits), called directly
FormatChangelogOf(conventional_commits) ==
    /\ ret = None
    /\ ret' = [op |-> "format_changelog", conventional_commits |-> conventional_commits,
               value |-> format_changelog(conventional_commits)]
    /\ UNCHANGED <<commits, parents, ctime, message, tree, head, refs>>

\* format_changelog for the records of all the commits of the repository
FormatChangelog ==
    FormatChangelogOf(ConventionalCommits(list_commits(None, None), FALSE, None, <<>>))

RunVersions == {Version(0, 1, 0), Version(1, 2, 3)}

\* The repositories of the application tests: create_git_repository commits
\* the messages one after the other and tags some of the commits.
NextRun ==
    \/ \E msg \in RunMessages : GitCommit(Cardinality(commits) + 1, 1, msg)
    \/ \E name \in RunTags : GitTag(name, Len(refs) + 1)
    \/ \E strict \in BOOLEAN, pats \in RunPatterns : RunOp(strict, None, pats)
    \/ \E directory \in RunDirectories : RunOp(FALSE, directory, <<>>)
    \/ \E patterns \in IgnorePatterns : IgnoreCommit(patterns)

SpecRun == Init /\ [][NextRun]_vars

CallMessages ==
    {<<"I", "n", "i", "t", "i", "a", "l", " ", "c", "o", "m", "m", "i", "t">>,
     <<"f", "e", "a", "t", ":", " ", "a", "d", "d", " ", "X">>,
     <<"f", "i", "x", "!", ":", " ", "c", "r", "i", "t", "i", "c", "a", "l", " ", "b", "u", "g">>,
     <<"c", "h", "o", "r", "e", ":", " ", "d", "e", "p", "s">>,
     <<"N", "o", "t", "e", "\n", "\n", "B", "R", "E", "A", "K", "I", "N", "G", " ", "C", "H", "A", "N", "G", "E", ":", " ", "b">>}

\* The functions behind the run, called on the records of the commits of a
\* repository: test_version.py and the changelog tests build such lists.
NextCalls ==
    \/ \E msg \in CallMessages : GitCommit(Cardinality(commits) + 1, 1, msg)
    \/ \E current_version \in RunVersions : GetNextVersion(current_version)
    \/ FormatChangelog

SpecCalls == Init /\ [][NextCalls]_vars

\* git add path; git commit -m msg: the tree of HEAD with the file at path
\* replaced by a new blob.
GitCommitFile(sha, t, msg, path) ==
    /\ ret = None
    /\ Cardinality(commits) < MaxCommits
    /\ sha \notin commits
    /\ AddCommit(sha, IF head = None THEN <<>> ELSE <<Get(head)>>, t, msg,
                 {e \in HeadTree : e[1] /= path} \cup {<<path, sha>>})
    /\ UNCHANGED <<refs, ret>>

DirMessages ==
    {<<"f", "e", "a", "t", ":", " ", "a", "d", "d", " ", "X">>,
     <<"f", "i", "x", "!", ":", " ", "c", "r", "i", "t", "i", "c", "a", "l", " ", "b", "u", "g">>}

DirFiles == {<<"c", "o", "r", "e", "/", "a">>, <<"a", "p", "i", "/", "b">>}

DirTags == {<<"v", "0", ".", "1", ".", "0">>, <<"c", "o", "r", "e", "/", "v", "1">>}

DirDirectories == {None, Some(<<"c", "o", "r", "e">>)}

DirPatterns == {<<>>, <<<<"f", "e", "a", "t">>>>}

\* Repositories with sub-directories: commits that change a file under core
\* or under api, root tags and tags of the scope core.
NextDir ==
    \/ GitCommit(Cardinality(commits) + 1, 1, <<"f", "e", "a", "t", ":", " ", "a", "d", "d", " ", "X">>)
    \/ \E msg \in DirMessages, path \in DirFiles :
           GitCommitFile(Cardinality(commits) + 1, 1, msg, path)
    \/ \E name \in DirTags : GitTag(name, Len(refs) + 1)
    \/ \E directory \in DirDirectories, pats \in DirPatterns :
           RunOp(FALSE, directory, pats)

SpecDir == Init /\ [][NextDir]_vars

\* commit.affects_dir(dir) for a listed commit, called directly
AffectsDirOf(commit, dir) ==
    /\ ret = None
    /\ ret' = [op |-> "affects_dir", commit |-> commit, dir |-> dir,
               value |-> affects_dir(commit, dir)]
    /\ UNCHANGED <<commits, parents, ctime, message, tree, head, refs>>

AffectsDir(sha, dir) ==
    /\ sha \in commits
    /\ AffectsDirOf(Commit(sha), dir)

PathMessages == {<<"f", "i", "x", ":", " ", "a">>}

PathFiles == {<<"l", "i", "b", "_", "a", "/", "s", "r", "c", "/", "x">>, <<"l", "i", "b", "_", "a", "b", "/", "y">>, <<"l", "i", "b", "_", "b">>}

PathDirs == {<<"l", "i", "b", "_", "a">>, <<"l", "i", "b", "_", "a", "/", "s", "r", "c">>, <<"l", "i", "b", "_", "a", "b">>, <<"l", "i", "b", "_", "b">>, <<"l", "i", "b">>}

PathTags == {<<"l", "i", "b", "_", "a", "/", "v", "1">>, <<"l", "i", "b", "_", "a", "/", "s", "r", "c", "/", "v", "2">>}

PathDirectories == {Some(<<"l", "i", "b", "_", "a">>), Some(<<"l", "i", "b", "_", "a", "/", "s", "r", "c">>)}

\* Repositories of libraries side by side: commits that change a file of a
\* library or no file, tags of the scope lib_a, the directory filter and the
\* run for a directory.
NextPaths ==
    \/ \E msg \in PathMessages : GitCommit(Cardinality(commits) + 1, 1, msg)
    \/ \E msg \in PathMessages, path \in PathFiles :
           GitCommitFile(Cardinality(commits) + 1, 1, msg, path)
    \/ \E name \in PathTags : GitTag(name, Len(refs) + 1)
    \/ \E sha \in commits, dir \in PathDirs : AffectsDir(sha, dir)
    \/ \E directory \in PathDirectories : RunOp(FALSE, directory, <<>>)

SpecPaths == Init /\ [][NextPaths]_vars

\* parse_subject(subject), called directly
ParseSubjectOf(subject) ==
    /\ ret = None
    /\ ret' = [op |-> "parse_subject", subject |-> subject, value |-> parse_subject(subject)]
    /\ UNCHANGED <<commits, parents, ctime, message, tree, head, refs>>

\* parse_subject for the subject of a listed commit
ParseSubject(sha) ==
    /\ sha \in commits
    /\ ParseSubjectOf(Commit(sha).subject)

SubjectLines ==
    {<<"f", "e", "a", "t", ":", " ", "f", "e", "a", "t", "u", "r", "e">>,
     <<"f", "i", "x", "(", "c", "o", "r", "e", ")", ":", " ", "n", "e", "w", " ", "f", "i", "x">>,
     <<"f", "e", "a", "t", "!", ":", " ", "b", "r", "e", "a", "k", "i", "n", "g", " ", "f", "e", "a", "t", "u", "r", "e">>,
     <<"f", "e", "a", "t", "(", "c", "o", "r", "e", "-", "a", "p", "p", ")", "!", ":", " ", "b", "r", "e", "a", "k", "i", "n", "g">>,
     <<"f", "e", "a", "t">>,
     <<"f", "e", "a", "t", ":">>,
     <<"f", "e", "a", "t", ":", " ">>,
     <<"f", "e", "a", "t", ":", " ", " ", "x">>,
     <<"f", "e", "a", "t", ":", "x">>,
     <<"f", "e", "a", "t", ":", "	", "x">>,
     <<":", " ", "t", "e", "x", "t">>,
     <<"(", "s", "c", "o", "p", "e", ")", ":", " ", "t", "e", "x", "t">>,
     <<"!", ":", " ", "x">>,
     <<"f", "i", "x", "(", "a", ")", ":", " ", "b", " ", "(", "c", ")", ":", " ", "d">>,
     <<"f", "(", "a", ")", ":", " ", "(", "b", ")", ":">>,
     <<"1", "f", "e", "a", "t", ":", " ", "x">>,
     <<"f", "e", "a", "t", " ", ":", " ", "x">>,
     <<"f", "e", "a", "t", "!", "(", "s", ")", ":", " ", "x">>,
     <<"f", "e", "a", "t", "(", "a", ":", " ", "x">>,
     <<"w", "i", "p", " ", "#", "1">>,
     <<"F", "e", "a", "t", "(", "s", ")", "!", ":", " ", "b">>,
     <<"F", "e", "a", "t", ":", " ", "a">>,
     <<"F", "i", "x", ":", " ", "a">>,
     <<"F", "E", "A", "T", ":", " ", "a">>,
     <<"c", "h", "o", "r", "e", ":", " ", "a">>,
     <<"D", "O", "C", "S", ":", " ", "a">>,
     <<"t", "E", "s", "T", ":", " ", "a">>,
     <<"r", "e", "f", "a", "c", "t", "o", "r", ":", " ", "a">>,
     <<"s", "t", "y", "l", "e", ":", " ", "a">>,
     <<"b", "u", "i", "l", "d", ":", " ", "a">>,
     <<"C", "i", ":", " ", "a">>,
     <<"o", "t", "h", "e", "r", ":", " ", "a">>,
     <<"f", "a", "k", "e", ":", " ", "a">>,
     <<"p", "e", "r", "f", ":", " ", "a">>}

SquashedMessages ==
    {<<"w", "i", "p", " ", "#", "1", "\n", "\n", ":", " ", "z", "\n", "f", "i", "x", ":", " ", "a">>,
     <<"w", "i", "p", " ", "#", "1", "\n", "\n", "*", " ", "(", "s", ")", ":", " ", "y", "\n", "*", " ", "f", "e", "a", "t", ":", " ", "b">>,
     <<"w", "i", "p", " ", "#", "1", "\n", "\n", "*", "f", "e", "a", "t", ":", "\n", ":", " ", "z">>}

SubjectImpactTypes == {<<>>, <<"f", "e", "a", "t">>, <<"f", "i", "x">>}

\* The repositories of the grammar tests: a first commit, a commit with the
\* line under test as its subject or in its body, and a further commit.
NextSubject ==
    \/ \E msg \in (IF Cardinality(commits) = 1 THEN SubjectLines \cup SquashedMessages
                    ELSE FillerMessages) :
           GitCommit(Cardinality(commits) + 1, 1, msg)
    \/ \E sha \in commits : ParseSubject(sha)
    \/ \E sha \in commits : FromGitCommit(sha)
    \/ \E commit_type \in SubjectImpactTypes, is_breaking \in BOOLEAN :
           GetCommitVersionImpact(commit_type, is_breaking)

SpecSubject == Init /\ [][NextSubject]_vars

\* ---------------------------------------------------------------- properties: the commit range walk
Listed == ret /= None /\ ret.op = "list_commits"

\* Where the walk is meant to end: to_tag's commit, or HEAD when to_tag is unset.
ToPoint == IF IsSome(ret.to) THEN Get(ret.to) ELSE Get(head)

ReachOpt(o) == IF IsSome(o) THEN Reach(Get(o)) ELSE {}

\* Both ends of the requested range lie on the history of HEAD.
EndsOnHead ==
    /\ head /= None
    /\ ToPoint \in Reach(Get(head))
    /\ IsSome(ret.from) => Get(ret.from) \in Reach(Get(head))

\* C1: list_commits(fromTag, None) returns every commit reachable from HEAD
\* that is not reachable from the commit fromTag points to, whatever the
\* commit timestamps are (stated for a tag that lies on the history of HEAD).
C1_EveryCommitAfterTag ==
    (Listed /\ EndsOnHead /\ IsSome(ret.from) /\ ret.to = None)
        => (Reach(Get(head)) \ Reach(Get(ret.from))) \subseteq Range(ret.value)

\* C2: in the sequence list_commits returns, no commit appears before one of
\* its ancestors.
C2_ParentBeforeChild ==
    Listed => \A i, j \in 1..Len(ret.value) :
                  i < j => ret.value[j] \notin Reach(ret.value[i])

\* The history is one chain of commits: no merge, one tip that reaches all.
Linear ==
    /\ \A c \in commits : Len(parents[c]) <= 1
    /\ \E tip \in commits : Reach(tip) = commits

\* The commits of a set in chain order, oldest first.
RECURSIVE ChainOrder(_)
ChainOrder(S) ==
    IF S = {} THEN <<>>
    ELSE LET last == CHOOSE c \in S : \A d \in S : Cardinality(Reach(d)) <= Cardinality(Reach(c))
         IN Append(ChainOrder(S \ {last}), last)

\* C3: when `to` is not reachable from `from`, list_commits(from, to) returns
\* no commit reachable from `from`, no commit unreachable from `to`, and it
\* contains the commit at `to`; on a linear history it is exactly the commits
\* after `from` up to and including `to` (or HEAD), oldest first (stated for
\* end points that lie on the history of HEAD).
C3_RangeBoundaries ==
    (Listed /\ EndsOnHead /\ ToPoint \notin ReachOpt(ret.from))
        => /\ Range(ret.value) \cap ReachOpt(ret.from) = {}
           /\ Range(ret.value) \subseteq Reach(ToPoint)
           /\ ToPoint \in Range(ret.value)
           /\ Linear => ret.value = ChainOrder(Reach(ToPoint) \ ReachOpt(ret.from))

\* C26: when the from point is not reachable from HEAD, list_commits behaves
\* as if no from point was given and returns the commits reachable from
\* HEAD, not an empty or a cut list.
C26_UnreachableFrom ==
    (Listed /\ IsSome(ret.from) /\ ret.to = None /\ Get(ret.from) \notin Reach(Get(head)))
        => /\ Range(ret.value) = Reach(Get(head))
           /\ Len(ret.value) = Cardinality(Reach(Get(head)))

\* ---------------------------------------------------------------- properties: the last version tag
Retrieved == ret /= None /\ ret.op = "retrieve_last_version"

\* The version tags among TagNames: <<name, scope, (M, m or 0, p or 0)>>, read
\* off the names as v<M>, v<M>.<m> or v<M>.<m>.<p> after the scope prefix.
VersionTags ==
    {<<<<"v", "0", ".", "1", ".", "0">>, None, <<0, 1, 0>>>>,
     <<<<"v", "1">>, None, <<1, 0, 0>>>>,
     <<<<"v", "1", ".", "9", ".", "0">>, None, <<1, 9, 0>>>>,
     <<<<"v", "1", ".", "1", "0", ".", "0">>, None, <<1, 10, 0>>>>,
     <<<<"v", "2", ".", "0", ".", "0">>, None, <<2, 0, 0>>>>,
     <<<<"v", "1", ".", "0", ".", "0">>, None, <<1, 0, 0>>>>,
     <<<<"v", "0", "1">>, None, <<1, 0, 0>>>>,
     <<<<"c", "o", "r", "e", "/", "v", "1">>, Some(<<"c", "o", "r", "e">>), <<1, 0, 0>>>>,
     <<<<"c", "o", "r", "e", "/", "v", "3", ".", "0", ".", "0">>, Some(<<"c", "o", "r", "e">>), <<3, 0, 0>>>>,
     <<<<"c", "o", "r", "e", "/", "c", "o", "n", "s", "u", "m", "e", "r", "/", "v", "1", ".", "1", ".", "0">>, Some(<<"c", "o", "r", "e", "/", "c", "o", "n", "s", "u", "m", "e", "r">>), <<1, 1, 0>>>>,
     <<<<"a", "p", "i", "/", "v", "4">>, Some(<<"a", "p", "i">>), <<4, 0, 0>>>>,
     <<<<"l", "i", "b", "_", "a", "/", "v", "1">>, Some(<<"l", "i", "b", "_", "a">>), <<1, 0, 0>>>>,
     <<<<"l", "i", "b", "_", "a", "/", "s", "r", "c", "/", "v", "2">>, Some(<<"l", "i", "b", "_", "a", "/", "s", "r", "c">>), <<2, 0, 0>>>>}

\* The version tags of a scope that the repository holds.
PresentTags(scope) ==
    {e \in VersionTags :
        e[2] = scope /\ \E i \in 1..Len(refs) : refs[i][1] = RefsTagsSlash \o e[1]}

\* (major, minor, patch) triples in numeric order
TripleLeq(a, b) ==
    \/ a[1] < b[1]
    \/ a[1] = b[1] /\ a[2] < b[2]
    \/ a[1] = b[1] /\ a[2] = b[2] /\ a[3] <= b[3]

\* The call returned the tag e with the version read off its name.
ReturnedTag(e) ==
    /\ ret.value.tag = Some(RefsTagsSlash \o e[1])
    /\ ret.value.version = Some(Version(e[3][1], e[3][2], e[3][3]))

\* C4: retrieve_last_version reads v<M>, v<M>.<m> and v<M>.<m>.<p> as the
\* version (M, m or 0, p or 0) and returns a tag whose version is the numeric
\* maximum of the version tags present; tags that are no version are skipped.
C4_NumericMaximum ==
    (Retrieved /\ ret.scope = None /\ PresentTags(None) /= {})
        => \E e \in PresentTags(None) :
               /\ ReturnedTag(e)
               /\ \A f \in PresentTags(None) : TripleLeq(f[3], e[3])

\* v1, v1.9.0 and v1.10.0 are tagged and 1.10.0 is returned.
C4_Witness ==
    /\ Retrieved /\ ret.scope = None
    /\ {<<"v", "1">>, <<"v", "1", ".", "9", ".", "0">>, <<"v", "1", ".", "1", "0", ".", "0">>} \subseteq {e[1] : e \in PresentTags(None)}
    /\ ret.value.version = Some(Version(1, 10, 0))

\* C5: retrieve_last_version(scope) returns a tag whose scope prefix is
\* exactly the requested scope, or no tag when the repository holds no version
\* tag of that scope, whatever tags of other scopes it holds.
C5_ScopeExact ==
    Retrieved
        => IF PresentTags(ret.scope) = {}
           THEN ret.value = [tag |-> None, version |-> None]
           ELSE \E e \in PresentTags(ret.scope) : ReturnedTag(e)

\* A request for scope core returns core/v1 although v2.0.0 is tagged too.
C5_Witness ==
    /\ Retrieved /\ ret.scope = Some(<<"c", "o", "r", "e">>)
    /\ PresentTags(None) /= {}
    /\ \E e \in PresentTags(None) : e[3][1] > 1
    /\ ret.value.tag = Some(RefsTagsSlash \o <<"c", "o", "r", "e", "/", "v", "1">>)

\* The result of retrieve_last_version had the repository enumerated its
\* refs in the order p.
RetrievedInOrder(p, scope) ==
    LastOf(SortedByVersion(TagVersionList(SelectSeq([i \in 1..Len(refs) |-> refs[p[i]][1]],
                                                    IsTagRef), scope)))

\* The commit the returned tag points at, None for no tag.
StartPoint(last) == IF last.tag = None THEN None ELSE Some(get_peeled(Get(last.tag)))

\* C30: the (tag, version) pair that retrieve_last_version returns, and with
\* it the commit the walk starts from, is the same for every order in which
\* the repository enumerates its refs, also when two tags of the scope encode
\* the same version (v1 and v1.0.0).
C30_EnumerationOrder ==
    Retrieved
        => \A p \in {q \in [1..Len(refs) -> 1..Len(refs)] :
                        \A i, j \in 1..Len(refs) : q[i] = q[j] => i = j} :
               /\ RetrievedInOrder(p, ret.scope) = ret.value
               /\ StartPoint(RetrievedInOrder(p, ret.scope)) = StartPoint(ret.value)

\* ---------------------------------------------------------------- properties: the first release
Ran == ret /= None /\ ret.op = "_run"

\* C6: when the repository holds no version tag of the requested scope,
\* retrieve_last_version returns (None, None) and _run returns version 0.1.0
\* with an empty changelog and raises nothing, whatever commits there are.
C6_DefaultFirstVersion ==
    (Ran /\ PresentTags(ret.directory) = {})
        => /\ retrieve_last_version(ret.directory) = [tag |-> None, version |-> None]
           /\ ret.value.raised = FALSE
           /\ ret.value.version = Some(Version(0, 1, 0))
           /\ ret.value.changelog = Some(<<>>)

\* A run over two commits or more and a tag that is no version.
C6_Witness ==
    /\ Ran /\ PresentTags(ret.directory) = {}
    /\ refs /= <<>>
    /\ Cardinality(commits) >= 2
    /\ ret.value.version = Some(Version(0, 1, 0))

\* ---------------------------------------------------------------- properties: the parser
Parsed == ret /= None /\ ret.op = "from_git_commit"

\* Subjects of the pools that are not of the form type(scope)!: description.
NonMatchingSubjects ==
    {<<"w", "i", "p", " ", "#", "1">>,
     <<"f", "e", "a", "t", ":">>,
     <<"f", "e", "a", "t", ":", " ">>,
     <<"I", "n", "i", "t", "i", "a", "l", " ", "c", "o", "m", "m", "i", "t">>}

\* Bodies of the pools without a line of that form.
NoMatchBodies ==
    {None,
     Some(<<"t", "e", "x", "t">>),
     Some(<<"B", "R", "E", "A", "K", "I", "N", "G", " ", "C", "H", "A", "N", "G", "E", ":", " ", "x">>)}

Unparsable(commit) == commit.subject \in NonMatchingSubjects /\ commit.body \in NoMatchBodies

MarkerText == <<"B", "R", "E", "A", "K", "I", "N", "G", " ", "C", "H", "A", "N", "G", "E", ":">>

HasMarker(body) == IsSome(body) /\ Contains(Get(body), MarkerText)

\* The commits after the tagged one, the history being one chain.
AfterTag == {sha \in commits : refs /= <<>> /\ sha > refs[1][2]}

\* The record of commit sha among the records a run kept.
RecordOf(sha) ==
    {i \in 1..Len(ret.value.conventional_commits) :
        ret.value.conventional_commits[i].hash = SubSeq(Hex(sha), 1, 7)}

RecoveryTable ==
    {<<<<"*", " ", "f", "i", "x", ":", " ", "a", "\n", "*", " ", "f", "e", "a", "t", ":", " ", "b", "\n", "*", " ", "c", "h", "o", "r", "e", ":", " ", "c">>,
       <<"f", "e", "a", "t">>, None, FALSE, <<"b">>>>,
     <<<<"f", "i", "x", ":", " ", "a", "\n", "\n", "p", "e", "r", "f", ":", " ", "b">>,
       <<"f", "i", "x">>, None, FALSE, <<"a">>>>,
     <<<<"-", " ", "f", "e", "a", "t", "!", ":", " ", "z", "\n", "f", "e", "a", "t", ":", " ", "y">>,
       <<"f", "e", "a", "t">>, None, TRUE, <<"z">>>>,
     <<<<"*", " ", "c", "h", "o", "r", "e", ":", " ", "a", "\n", "\n", " ", " ", "*", " ", "F", "i", "x", "(", "s", ")", ":", " ", "b">>,
       <<"c", "h", "o", "r", "e">>, None, FALSE, <<"a">>>>}

C9_BreakingInBody ==
    /\ (Parsed /\ HasMarker(ret.commit.body)) => ret.value.is_breaking
    /\ (Ran /\ ret.value.raised = FALSE /\ ret.value.conventional_commits /= <<>>)
           => \A i \in 1..Len(ret.value.conventional_commits) :
                  HasMarker(ret.value.conventional_commits[i].body)
                      => /\ ret.value.conventional_commits[i].is_breaking
                         /\ ret.value.version = Some(Version(2, 0, 0))

\* A run after v1.0.0 over two commits, one of them a fallback record with
\* the marker in its body, gives 2.0.0.
C9_Witness ==
    /\ Ran
    /\ Len(ret.value.conventional_commits) >= 2
    /\ \E i \in 1..Len(ret.value.conventional_commits) :
           /\ HasMarker(ret.value.conventional_commits[i].body)
           /\ ret.value.conventional_commits[i].is_conventional = FALSE
    /\ ret.value.version = Some(Version(2, 0, 0))

\* ---------------------------------------------------------------- properties: the version impact
Impacted == ret /= None /\ ret.op = "get_commit_version_impact"

\* The type feat, in the letter cases of the pool.
FeatSpellings == {<<"f", "e", "a", "t">>, <<"F", "e", "a", "t">>, <<"F", "E", "A", "T">>}

\* C10: get_commit_version_impact is MAJOR when is_breaking, whatever the
\* type; else MINOR when the type is feat (in any letter case); else PATCH,
\* unknown types included; it is never NONE.
C10_ImpactMapping ==
    Impacted
        => /\ ret.value /= NONE
           /\ ret.is_breaking => ret.value = MAJOR
           /\ (~ret.is_breaking /\ ret.commit_type \in FeatSpellings) => ret.value = MINOR
           /\ (~ret.is_breaking /\ ret.commit_type \notin FeatSpellings) => ret.value = PATCH

\* The impact of an unknown type that is not breaking is PATCH.
C10_Witness ==
    /\ Impacted
    /\ ret.commit_type = <<"u", "n", "k", "n", "o", "w", "n">>
    /\ ~ret.is_breaking
    /\ ret.value = PATCH

\* ---------------------------------------------------------------- properties: the next version
Bumped == ret /= None /\ ret.op = "get_next_version"

\* The bump the records call for: major if one is breaking, else minor if one
\* is a feat, else patch.
ExpectedBump(v, cs) ==
    IF \E i \in 1..Len(cs) : cs[i].is_breaking
    THEN [major |-> v.major + 1, minor |-> 0, patch |-> 0]
    ELSE IF \E i \in 1..Len(cs) : cs[i].commit_type = <<"f", "e", "a", "t">>
    THEN [major |-> v.major, minor |-> v.minor + 1, patch |-> 0]
    ELSE [major |-> v.major, minor |-> v.minor, patch |-> v.patch + 1]

\* C11: get_next_version returns v unchanged for no commits; otherwise it
\* applies the highest impact once: (major+1, 0, 0) if a commit is breaking,
\* else (major, minor+1, 0) if a commit is a feat, else (major, minor,
\* patch+1), which is greater than v.
C11_NextVersion ==
    Bumped
        => IF ret.conventional_commits = <<>>
           THEN ret.value = ret.current_version
           ELSE /\ ret.value = ExpectedBump(ret.current_version, ret.conventional_commits)
                /\ TripleLeq(<<ret.current_version.major, ret.current_version.minor,
                                ret.current_version.patch>>,
                              <<ret.value.major, ret.value.minor, ret.value.patch>>)
                /\ ret.value /= ret.current_version

\* 1.2.3 with a feat and another commit, none breaking, gives 1.3.0.
C11_Witness ==
    /\ Bumped
    /\ ret.current_version = Version(1, 2, 3)
    /\ Len(ret.conventional_commits) >= 2
    /\ \E i \in 1..Len(ret.conventional_commits) :
           ret.conventional_commits[i].commit_type = <<"f", "e", "a", "t">>
    /\ \A i \in 1..Len(ret.conventional_commits) : ~ret.conventional_commits[i].is_breaking
    /\ ret.value = Version(1, 3, 0)

\* ---------------------------------------------------------------- properties: the run
\* The version tags of the requested scope with the highest version.
LatestTags(scope) ==
    {e \in PresentTags(scope) : \A f \in PresentTags(scope) : TripleLeq(f[3], e[3])}

\* The commit the tag e points at.
TagCommit(e) == refs[CHOOSE i \in 1..Len(refs) : refs[i][1] = RefsTagsSlash \o e[1]][2]

\* The commit changes a file of the directory.
TouchesDir(sha, directory) ==
    \E path \in get_commit_paths(sha) : StartsWith(path, Get(directory) \o <<"/">>)

\* The commit message holds one of the patterns.
MessageIgnored(sha, patterns) ==
    \E i \in 1..Len(patterns) : patterns[i] /= <<>> /\ Contains(message[sha], patterns[i])

\* The records of the commits sha, sha + 1, ... (the history is one chain,
\* numbered in commit order) that pass the directory and the ignore filter.
RECURSIVE Survivors(_, _, _)
Survivors(sha, directory, patterns) ==
    IF sha \notin commits THEN <<>>
    ELSE (IF (directory = None \/ TouchesDir(sha, directory))
                /\ ~MessageIgnored(sha, patterns)
          THEN <<from_git_commit(Commit(sha))>>
          ELSE <<>>) \o Survivors(sha + 1, directory, patterns)

\* The run returned the next version and the changelog of the records R.
ReturnedFor(v, R) ==
    /\ ret.value.raised = FALSE
    /\ ret.value.version = Some(get_next_version(Version(v[1], v[2], v[3]), R))
    /\ ret.value.changelog = Some(format_changelog(R))

\* C12: with T the latest version tag of the requested scope and v its
\* version, _run returns get_next_version(v, R) and format_changelog(R) for
\* the records R of the commits after T that pass the directory and ignore
\* filters, in walk order; v0.1.0 followed by "feat: add X" gives 0.2.0 and
\* the one Features entry "add X (<hash>)".
C12_RunComposes ==
    Ran => \A e \in LatestTags(ret.directory) :
               /\ Survivors(TagCommit(e) + 1, ret.directory, ret.ignored_patterns) /= <<>>
                      => ReturnedFor(e[3], Survivors(TagCommit(e) + 1, ret.directory,
                                                     ret.ignored_patterns))
               /\ (/\ ret.directory = None /\ ret.ignored_patterns = <<>>
                   /\ e[3] = <<0, 1, 0>>
                   /\ commits = 1..(TagCommit(e) + 1)
                   /\ message[TagCommit(e) + 1] = <<"f", "e", "a", "t", ":", " ", "a", "d", "d", " ", "X">>)
                      => /\ ret.value.version = Some(Version(0, 2, 0))
                         /\ ret.value.changelog
                                = Some(<<"#", "#", "#", " ", "F", "e", "a", "t", "u", "r", "e", "s", "\n", "*", " ", "a", "d", "d", " ", "X", " ", "(">>
                                       \o SubSeq(Hex(TagCommit(e) + 1), 1, 7) \o <<")">>)

\* A run for the directory core after core/v1: of three commits after the
\* tag, the one that changes a file under core is a breaking fix, and the
\* version is 2.0.0.
C12_Witness ==
    /\ Ran /\ ret.directory = Some(<<"c", "o", "r", "e">>) /\ ret.ignored_patterns /= <<>>
    /\ \E e \in LatestTags(ret.directory) :
           /\ Cardinality(commits) >= TagCommit(e) + 2
           /\ Len(Survivors(TagCommit(e) + 1, ret.directory, ret.ignored_patterns)) = 1
           /\ \E sha \in commits : sha > TagCommit(e) /\ MessageIgnored(sha, ret.ignored_patterns)
    /\ ret.value.version = Some(Version(2, 0, 0))

\* C13: when a version tag exists and no commit follows it, or every commit
\* after it is excluded by the ignore patterns, _run raises ValueError and
\* returns no version; it never returns the version of the tag unchanged.
C13_NothingToRelease ==
    Ran => \A e \in LatestTags(ret.directory) :
               /\ (\A sha \in commits :
                       sha > TagCommit(e) => MessageIgnored(sha, ret.ignored_patterns))
                      => /\ ret.value.raised
                         /\ ret.value.version = None
                         /\ ret.value.changelog = None
               /\ ret.value.version /= Some(Version(e[3][1], e[3][2], e[3][3]))

\* Every commit after the tag is ignored, and the run raises.
C13_Witness ==
    /\ Ran /\ ret.value.raised
    /\ \E e \in LatestTags(ret.directory) :
           /\ \E sha \in commits : sha > TagCommit(e)
           /\ \A sha \in commits :
                  sha > TagCommit(e) => MessageIgnored(sha, ret.ignored_patterns)

\* ---------------------------------------------------------------- properties: strict mode
\* C14: in strict mode a commit whose subject is not of the conventional form
\* and whose body has no line of that form is removed: the run keeps no
\* record of it, and the run raises when the removal leaves no commit.
C14_StrictRemoves ==
    (Ran /\ ret.strict /\ ret.ignored_patterns = <<>>)
        => \A e \in LatestTags(ret.directory) :
               /\ \A sha \in commits :
                      (sha > TagCommit(e) /\ Unparsable(Commit(sha))) => RecordOf(sha) = {}
               /\ (\A sha \in commits : sha > TagCommit(e) => Unparsable(Commit(sha)))
                      => ret.value.raised

\* C15: in strict mode _run raises ValueError whenever a commit after the
\* latest version tag is not conventional, even when other commits are.
C15_StrictFails ==
    (Ran /\ ret.strict /\ ret.ignored_patterns = <<>>)
        => \A e \in LatestTags(ret.directory) :
               (\E sha \in commits : sha > TagCommit(e) /\ Unparsable(Commit(sha)))
                   => ret.value.raised

\* C16: in non-strict mode, when the only commit after the latest version
\* tag is not conventional and has no body, _run raises ValueError.
C16_NonStrictFails ==
    (Ran /\ ~ret.strict /\ ret.ignored_patterns = <<>>)
        => \A e \in LatestTags(ret.directory) :
               (/\ commits = 1..(TagCommit(e) + 1)
                /\ Unparsable(Commit(TagCommit(e) + 1))
                /\ Commit(TagCommit(e) + 1).body = None)
                   => ret.value.raised

\* ---------------------------------------------------------------- properties: the ignore patterns
Ignoring == ret /= None /\ ret.op = "ignore_commit"

BodyText(c) == IF IsSome(c.body) THEN Get(c.body) ELSE <<>>

\* The run kept no record of an ignored commit; with the pattern chore, a
\* feat and a chore after the tag give a minor bump and a changelog without
\* the chore.
IgnoredAreDropped ==
    Ran => \A e \in LatestTags(ret.directory) :
               /\ \A sha \in commits :
                      (sha > TagCommit(e) /\ MessageIgnored(sha, ret.ignored_patterns))
                          => RecordOf(sha) = {}
               /\ (/\ ret.ignored_patterns = <<<<"c", "h", "o", "r", "e">>>>
                   /\ {message[sha] : sha \in {c \in commits : c > TagCommit(e)}}
                          = {<<"f", "e", "a", "t", ":", " ", "a", "d", "d", " ", "X">>,
                             <<"c", "h", "o", "r", "e", ":", " ", "d", "e", "p", "s">>})
                      => /\ ret.value.version
                                = Some(Version(e[3][1], e[3][2] + 1, 0))
                         /\ ~Contains(Get(ret.value.changelog), <<"c", "h", "o", "r", "e">>)

SquashedBody == <<"*", " ", "f", "i", "x", ":", " ", "a", "\n", "*", " ", "f", "e", "a", "t", ":", " ", "b", "\n", "*", " ", "c", "h", "o", "r", "e", ":", " ", "c">>

SquashedLines ==
    {<<<<"f", "i", "x", ":", " ", "a">>, PATCH>>,
     <<<<"f", "e", "a", "t", ":", " ", "b">>, MINOR>>,
     <<<<"c", "h", "o", "r", "e", ":", " ", "c">>, PATCH>>}

\* The lines of the squashed body that hold none of the patterns.
LinesLeft(patterns) ==
    {l \in SquashedLines :
        ~\E i \in 1..Len(patterns) : patterns[i] /= <<>> /\ Contains(l[1], patterns[i])}

\* C18: for a squashed commit after the tag whose body lists the lines
\* fix, feat, chore, the ignore patterns exclude only the lines they match:
\* the bump is that of the highest impact among the lines left, and the run
\* raises only when no line is left.
C18_IgnoreLines ==
    Ran => \A e \in LatestTags(ret.directory) :
               (/\ commits = 1..(TagCommit(e) + 1)
                /\ Commit(TagCommit(e) + 1).subject = <<"w", "i", "p", " ", "#", "1">>
                /\ Commit(TagCommit(e) + 1).body = Some(SquashedBody))
                   => IF LinesLeft(ret.ignored_patterns) = {}
                      THEN ret.value.raised
                      ELSE /\ ret.value.raised = FALSE
                           /\ ret.value.version
                                  = Some(IF \E l \in LinesLeft(ret.ignored_patterns) : l[2] = MINOR
                                         THEN Version(e[3][1], e[3][2] + 1, 0)
                                         ELSE Version(e[3][1], e[3][2], e[3][3] + 1))

\* ---------------------------------------------------------------- properties: the changelog
Logged == ret /= None /\ ret.op = "format_changelog"

Feats(cs) == SelectSeq(cs, LAMBDA c : c.commit_type = <<"f", "e", "a", "t">>)

Fixes(cs) == SelectSeq(cs, LAMBDA c : c.commit_type = <<"f", "i", "x">>)

Others(cs) ==
    SelectSeq(cs, LAMBDA c : c.commit_type \notin {<<"f", "e", "a", "t">>, <<"f", "i", "x">>})

\* A heading and one line for each record of the group, nothing for no record.
HeadingAndLines(heading, group) ==
    IF group = <<>> THEN <<>>
    ELSE <<heading>> \o [i \in 1..Len(group) |-> <<"*", " ">> \o format(group[i])]

\* The lines of a text that are not blank.
TextLines(text) == SelectSeq(Split(text, <<"\n">>), LAMBDA l : l /= <<>>)

\* C19: the changelog holds every record once: the feats under Features,
\* the fixes under Fixes, all others under Other, the sections in this
\* order, the records of a section in input order, no heading for a section
\* without records, and the empty text for no records.
C19_ChangelogSections ==
    Logged
        => /\ TextLines(ret.value)
                  = HeadingAndLines(<<"#", "#", "#", " ", "F", "e", "a", "t", "u", "r", "e", "s">>, Feats(ret.conventional_commits))
                        \o HeadingAndLines(<<"#", "#", "#", " ", "F", "i", "x", "e", "s">>, Fixes(ret.conventional_commits))
                        \o HeadingAndLines(<<"#", "#", "#", " ", "O", "t", "h", "e", "r">>, Others(ret.conventional_commits))
           /\ ret.conventional_commits = <<>> => ret.value = <<>>

\* A changelog of three records, the first of type chore, the last a feat.
C19_Witness ==
    /\ Logged
    /\ Len(ret.conventional_commits) = 3
    /\ ret.conventional_commits[1].commit_type = <<"c", "h", "o", "r", "e">>
    /\ ret.conventional_commits[3].commit_type = <<"f", "e", "a", "t">>
    /\ Len(TextLines(ret.value)) >= 5

\* ---------------------------------------------------------------- properties: the changelog line
Rendered == ret /= None /\ ret.op = "format"

HasScope(c) == IsSome(c.scope) /\ Get(c.scope) /= <<>>

\* "U+0060" stands for the backtick.
ScopeText(c) == <<"(", "U+0060">> \o Get(c.scope) \o <<"U+0060", ")">>

\* The prefix of a rendered record.
Prefix(c) ==
    IF c.commit_type \in {<<"f", "e", "a", "t">>, <<"f", "i", "x">>}
    THEN IF HasScope(c) THEN ScopeText(c) \o <<" ">> ELSE <<>>
    ELSE c.commit_type \o (IF HasScope(c) THEN ScopeText(c) ELSE <<>>) \o <<":", " ">>

\* C20: format renders the marker '**BREAKING CHANGE** ' exactly when the
\* record is breaking, then the prefix: nothing for a feat or fix without
\* scope, the scope in backticks and parentheses for a feat or fix with a
\* scope, the type with the scope (or without) and a colon for every other
\* type; then the description and the short hash in parentheses.
C20_FormatLine ==
    Rendered
        => ret.value = (IF ret.commit.is_breaking THEN <<"*", "*", "B", "R", "E", "A", "K", "I", "N", "G", " ", "C", "H", "A", "N", "G", "E", "*", "*", " ">> ELSE <<>>)
                           \o Prefix(ret.commit) \o ret.commit.subject
                           \o <<" ", "(">> \o ret.commit.hash \o <<")">>

\* A breaking feat with a scope is rendered.
C20_Witness ==
    /\ Rendered
    /\ ret.commit.is_breaking
    /\ ret.commit.commit_type = <<"f", "e", "a", "t">>
    /\ HasScope(ret.commit)
    /\ StartsWith(ret.value, <<"*", "*", "B", "R", "E", "A", "K", "I", "N", "G", " ", "C", "H", "A", "N", "G", "E", "*", "*", " ", "(", "U+0060", "s", "U+0060", ")", " ", "b", " ", "(">>)

\* ---------------------------------------------------------------- properties: the directory filter
Filtered == ret /= None /\ ret.op = "affects_dir"

\* The pairs <<path, directory>> where the path is the directory or lies
\* under it, by whole segments.
UnderTable ==
    {<<<<"l", "i", "b", "_", "a", "/", "s", "r", "c", "/", "x">>, <<"l", "i", "b", "_", "a">>>>,
     <<<<"l", "i", "b", "_", "a", "/", "s", "r", "c", "/", "x">>, <<"l", "i", "b", "_", "a", "/", "s", "r", "c">>>>,
     <<<<"l", "i", "b", "_", "a", "b", "/", "y">>, <<"l", "i", "b", "_", "a", "b">>>>,
     <<<<"l", "i", "b", "_", "b">>, <<"l", "i", "b", "_", "b">>>>}

\* The commit changes a path that is the directory or lies under it.
ChangesUnder(sha, dir) == \E path \in get_commit_paths(sha) : <<path, dir>> \in UnderTable

\* The commits after the commit c, in commit order, that change a path under dir.
RECURSIVE KeptAfter(_, _)
KeptAfter(c, dir) ==
    IF c + 1 \notin commits THEN <<>>
    ELSE (IF ChangesUnder(c + 1, dir) THEN <<SubSeq(Hex(c + 1), 1, 7)>> ELSE <<>>)
             \o KeptAfter(c + 1, dir)

\* The short hashes of the records the run kept.
KeptHashes == [i \in 1..Len(ret.value.conventional_commits) |-> ret.value.conventional_commits[i].hash]

\* C21: with a target directory a commit is kept only if one of its changed
\* paths is that directory or lies under it, compared by whole segments: a
\* path under lib_ab does not match lib_a, a path under lib_a/src matches
\* lib_a and lib_a/src, and a commit without changed paths is never kept.
C21_SegmentPrefix ==
    /\ Filtered
           => /\ ret.value = \E path \in ret.commit.paths : <<path, ret.dir>> \in UnderTable
              /\ ret.commit.paths = {} => ret.value = FALSE
    /\ (Ran /\ IsSome(ret.directory))
           => \A e \in LatestTags(ret.directory) :
                  KeptHashes = KeptAfter(TagCommit(e), Get(ret.directory))

\* A run for lib_a after lib_a/v1: of the two commits after the tag, the one
\* that changes lib_ab/y is dropped and the one that changes lib_a/src/x is kept.
C21_Witness ==
    /\ Ran /\ ret.directory = Some(<<"l", "i", "b", "_", "a">>)
    /\ commits = 1..3
    /\ \E e \in LatestTags(ret.directory) : TagCommit(e) = 1
    /\ get_commit_paths(2) = {<<"l", "i", "b", "_", "a", "b", "/", "y">>}
    /\ get_commit_paths(3) = {<<"l", "i", "b", "_", "a", "/", "s", "r", "c", "/", "x">>}
    /\ KeptHashes = <<SubSeq(Hex(3), 1, 7)>>

\* C27: a root commit is compared against its own tree: the directory filter
\* keeps a root commit whose tree holds a file under the directory.
C27_RootOwnTree ==
    Filtered
        => \A sha \in commits :
               (/\ ret.commit.hash = Hex(sha)
                /\ parents[sha] = <<>>
                /\ \E e \in tree[sha] : <<e[1], ret.dir>> \in UnderTable)
                   => ret.value = TRUE

\* ---------------------------------------------------------------- properties: the description
\* C22: every record that from_git_commit constructs has a non-empty
\* description, also for a commit with an empty subject and for a commit that
\* takes the fallback to the type other.
C22_DescriptionNonEmpty ==
    Parsed => ret.value.subject /= <<>>

\* ---------------------------------------------------------------- properties: the grammar
SubjectParsed == ret /= None /\ ret.op = "parse_subject"

\* The position after an optional '!' at position p.
AfterMark(s, p, mark) == IF mark THEN p + 1 ELSE p

\* The line s read as type, optional (scope), optional !, ':', w whitespace
\* characters and the description: k is the end of the type, close the
\* position of the ')' of the scope (0 without a scope).
IsReading(s, k, close, mark, w) ==
    /\ \A i \in 1..k : s[i] \in Range(LowerLetters) \cup Range(UpperLetters)
    /\ close /= 0 => (k + 1 <= Len(s) /\ s[k + 1] = "(" /\ close >= k + 2 /\ s[close] = ")")
    /\ LET p == IF close = 0 THEN k + 1 ELSE close + 1
       IN /\ mark => (p <= Len(s) /\ s[p] = "!")
          /\ AfterMark(s, p, mark) <= Len(s)
          /\ s[AfterMark(s, p, mark)] = ":"
          /\ w = 1 => /\ AfterMark(s, p, mark) + 1 <= Len(s)
                      /\ s[AfterMark(s, p, mark) + 1] \in {" ", "\t"}

\* The tuple (type, scope, breaking flag, description) of a reading.
ReadingTuple(s, k, close, mark, w) ==
    [type |-> SubSeq(s, 1, k),
     scope |-> IF close = 0 THEN <<>> ELSE <<SubSeq(s, k + 2, close - 1)>>,
     is_breaking |-> mark,
     subject |-> SubSeq(s, AfterMark(s, IF close = 0 THEN k + 1 ELSE close + 1, mark) + 1 + w,
                        Len(s))]

\* All the readings of the line, as <<tuple, close, w>>.
Readings(s) ==
    {<<ReadingTuple(s, k, close, mark, w), close, w>> :
        <<k, close, mark, w>> \in
            {x \in (0..Len(s)) \X (0..Len(s)) \X BOOLEAN \X {0, 1} :
                IsReading(s, x[1], x[2], x[3], x[4])}}

\* The readings with a description that is not empty.
FullReadings(s) == {r \in Readings(s) : r[1].subject /= <<>>}

Preferred(s) ==
    CHOOSE r \in Readings(s) :
        \A q \in Readings(s) : q[2] < r[2] \/ (q[2] = r[2] /\ q[3] <= r[3])

SubjectTable ==
    {<<<<"f", "e", "a", "t", ":", " ", "a">>,
       <<"f", "e", "a", "t">>, <<>>, FALSE, <<"a">>>>,
     <<<<"F", "e", "a", "t", "(", "s", ")", "!", ":", " ", "b">>,
       <<"f", "e", "a", "t">>, <<<<"s">>>>, TRUE, <<"b">>>>,
     <<<<"f", "i", "x", ":", " ", "c">>,
       <<"f", "i", "x">>, <<>>, FALSE, <<"c">>>>,
     <<<<"c", "h", "o", "r", "e", "(", "d", "e", "p", "s", ")", ":", " ", "d">>,
       <<"c", "h", "o", "r", "e">>, <<<<"d", "e", "p", "s">>>>, FALSE, <<"d">>>>,
     <<<<"f", "a", "k", "e", ":", " ", "e">>,
       <<"o", "t", "h", "e", "r">>, <<>>, FALSE, <<"e">>>>,
     <<<<":", " ", "x">>,
       <<"o", "t", "h", "e", "r">>, <<>>, FALSE, <<"x">>>>,
     <<<<"(", "s", ")", ":", " ", "y">>,
       <<"o", "t", "h", "e", "r">>, <<<<"s">>>>, FALSE, <<"y">>>>,
     <<<<"f", "i", "x", "(", "a", ")", ":", " ", "b", " ", "(", "c", ")", ":", " ", "d">>,
       <<"f", "i", "x">>, <<<<"a", ")", ":", " ", "b", " ", "(", "c">>>>, FALSE, <<"d">>>>}

\* C24: when the subject is of the conventional form, the type, the scope and
\* the description of the record come from the subject alone, whatever lines
\* the body holds (subject fix: c with the body line feat: b gives fix); of
\* the body only the marker 'BREAKING CHANGE:' changes the record: it makes
\* it breaking.
C24_SubjectFirst ==
    Parsed
        => \A e \in SubjectTable :
               ret.commit.subject = e[1]
                   => /\ ret.value.commit_type = e[2]
                      /\ ret.value.scope = e[3]
                      /\ ret.value.subject = e[5]
                      /\ ret.value.is_conventional
                      /\ ret.value.is_breaking = (e[4] \/ HasMarker(ret.commit.body))

\* The subject fix: c with the body lines fix: a, feat: b, chore: c gives a
\* record of type fix and description c that is not breaking.
C24_Witness ==
    /\ Parsed
    /\ ret.commit.subject = <<"f", "i", "x", ":", " ", "c">>
    /\ ret.commit.body = Some(<<"*", " ", "f", "i", "x", ":", " ", "a", "\n", "*", " ", "f", "e", "a", "t", ":", " ", "b", "\n", "*", " ", "c", "h", "o", "r", "e", ":", " ", "c">>)
    /\ ret.value.commit_type = <<"f", "i", "x">>
    /\ ret.value.subject = <<"c">>
    /\ ret.value.is_breaking = FALSE

\* ---------------------------------------------------------------- properties: the type
\* The closed enumeration of the types.
Enumeration ==
    {<<"f", "e", "a", "t">>,
     <<"f", "i", "x">>,
     <<"c", "h", "o", "r", "e">>,
     <<"d", "o", "c", "s">>,
     <<"t", "e", "s", "t">>,
     <<"r", "e", "f", "a", "c", "t", "o", "r">>,
     <<"s", "t", "y", "l", "e">>,
     <<"b", "u", "i", "l", "d">>,
     <<"c", "i">>,
     <<"o", "t", "h", "e", "r">>}

\* Type tokens as written, and the type they stand for.
TypeTable ==
    {<<<<"f", "e", "a", "t">>, <<"f", "e", "a", "t">>>>,
     <<<<"F", "e", "a", "t">>, <<"f", "e", "a", "t">>>>,
     <<<<"F", "E", "A", "T">>, <<"f", "e", "a", "t">>>>,
     <<<<"f", "i", "x">>, <<"f", "i", "x">>>>,
     <<<<"F", "i", "x">>, <<"f", "i", "x">>>>,
     <<<<"c", "h", "o", "r", "e">>, <<"c", "h", "o", "r", "e">>>>,
     <<<<"D", "O", "C", "S">>, <<"d", "o", "c", "s">>>>,
     <<<<"t", "E", "s", "T">>, <<"t", "e", "s", "t">>>>,
     <<<<"r", "e", "f", "a", "c", "t", "o", "r">>, <<"r", "e", "f", "a", "c", "t", "o", "r">>>>,
     <<<<"s", "t", "y", "l", "e">>, <<"s", "t", "y", "l", "e">>>>,
     <<<<"b", "u", "i", "l", "d">>, <<"b", "u", "i", "l", "d">>>>,
     <<<<"C", "i">>, <<"c", "i">>>>,
     <<<<"o", "t", "h", "e", "r">>, <<"o", "t", "h", "e", "r">>>>,
     <<<<"f", "a", "k", "e">>, <<"o", "t", "h", "e", "r">>>>,
     <<<<"p", "e", "r", "f">>, <<"o", "t", "h", "e", "r">>>>}

\* The subject is the token followed by ': a'.
HasToken(subject, token) == subject = token \o <<":", " ", "a">>

\* C25: the type token is mapped onto the enumeration without regard to
\* case (Feat gives feat, Fix gives fix), every token outside the enumeration
\* (fake, perf) gives other, and the type of a record is always a member of
\* the enumeration.
C25_TypeEnumeration ==
    Parsed
        => /\ ret.value.commit_type \in Enumeration
           /\ \A e \in TypeTable :
                  HasToken(ret.commit.subject, e[1]) => ret.value.commit_type = e[2]

\* The subject 'tEsT: a' gave a record of type test.
C25_Witness ==
    /\ Parsed
    /\ ret.commit.subject = <<"t", "E", "s", "T", ":", " ", "a">>
    /\ ret.value.commit_type = <<"t", "e", "s", "t">>

Orders(n) == {p \in [1..n -> 1..n] : \A i, j \in 1..n : p[i] = p[j] => i = j}

\* C28: get_next_version is a function of the version and the set of
\* commits: the version it returned is the one it gives for the same commits
\* in every other order and with any one commit given twice.
C28_SetOfCommits ==
    Bumped
        => /\ get_next_version(ret.current_version, ret.conventional_commits) = ret.value
           /\ \A p \in Orders(Len(ret.conventional_commits)) :
                  get_next_version(ret.current_version,
                                   [i \in 1..Len(ret.conventional_commits)
                                       |-> ret.conventional_commits[p[i]]]) = ret.value
           /\ \A i \in 1..Len(ret.conventional_commits) :
                  /\ get_next_version(ret.current_version,
                                      Append(ret.conventional_commits,
                                             ret.conventional_commits[i])) = ret.value
                  /\ get_next_version(ret.current_version,
                                      <<ret.conventional_commits[i]>>
                                          \o ret.conventional_commits) = ret.value

\* Three commits of three different impacts, the breaking one first: 2.0.0.
C28_Witness ==
    /\ Bumped
    /\ ret.current_version = Version(1, 2, 3)
    /\ Len(ret.conventional_commits) = 3
    /\ ret.conventional_commits[1].is_breaking
    /\ ret.conventional_commits[2].commit_type = <<"f", "e", "a", "t">>
    /\ ~ret.conventional_commits[2].is_breaking
    /\ ret.conventional_commits[3].commit_type = <<"c", "h", "o", "r", "e">>
    /\ ret.value = Version(2, 0, 0)

====
